---- MODULE Spec2Model ----
(***************************************************************************)
(* Model of the fxblue-etl ingestion pipeline.                             *)
(*                                                                         *)
(*   src/CSV PARSER/gcp_csv.py   main / process_blob / UPSERT_SQL          *)
(*   src/gcp_rss.py              main / process_account / META_UPSERT /    *)
(*                               TRADES_UPSERT / to_pct                    *)
(*                                                                         *)
(* The two scripts are two entry points; a run is a run of one of them     *)
(* (variable program).  Each unit (one blob, one roster row) is executed   *)
(* by a pool thread; the shared state is the relational store.  The store  *)
(* is modelled with per-connection transactions: a statement takes the row *)
(* lock of its ticket, its effect is visible to other connections only at  *)
(* commit, and a connection that is closed without commit is rolled back.  *)
(*                                                                         *)
(* A trade row carries three of the mutable columns (account_id,           *)
(* timestamp, pnl) and one enrichment column (gpt); the remaining mutable  *)
(* columns are assigned by the statements exactly like pnl                 *)
(* (col = EXCLUDED.col) and the remaining gpt columns exactly like gpt     *)
(* (absent from the DO UPDATE list).                                       *)
(***************************************************************************)
EXTENDS Integers, Sequences, FiniteSets, TLC

\* ------------------------------------------------------------------ bounds
NumUnits == 2
MaxTicket == 2
MaxRows == 2
MaxTs == 2
MaxEntries == 2
MaxSum == 2

\* ------------------------------------------------- configuration (env vars)
MAX_WORKERS == 2
BATCH_SIZE == 2

\* --------------------------------------------------------------- constants
NULL == 0
NaN == 0

Units == 1..NumUnits
Tickets == 1..MaxTicket

VARIABLES
    program,            \* which entry point runs: "csv" or "rss"
    max_workers,        \* the pool size of the run: the value its environment
                        \* gives MAX_WORKERS, any size up to the bound MAX_WORKERS
    main,               \* main(): "running" | "done"
    pc,                 \* pc[u]: position of unit u in process_blob / process_account
    reason,             \* reason[u]: typed reason of a Failed unit
    src,                \* src[u]: what the unit's source turned out to be
    df,                 \* df[u]: the unit's in-flight table (columns case, rows,
                        \*        and n, the number of rows it had when read)
    vals,               \* vals[u]: parameter tuples handed to executemany
    k,                  \* k[u]: tuples of vals[u] already executed
    conn,               \* conn[u]: "none" | "open" | "closed"
    tx,                 \* tx[u]: rows written by u's open transaction (row locks)
    historical_trades,  \* committed table of the CSV script, ticket -> row
    rss_trades,         \* committed table of the RSS script, ticket -> row
    account_metadata,   \* committed table, account_id -> row
    win,                \* win[u]: to_pct(row.get("trade win")) of unit u
    bal,                \* bal[u]: the account summary held by the feed walk
    mtx,                \* mtx[u]: metadata row written by u's open transaction
    log,                \* log[u]: log records emitted for unit u
    pairs,              \* history: pairs[u], the tickets of the rows read by u
    lastWrite,          \* history: lastWrite[t], the tuple of the last commit on t
    enriched,           \* history: tickets the enrichment process has filled
    walked              \* history: walked[u], the feed entries the walk has passed

store == <<historical_trades, rss_trades, account_metadata>>
rssv == <<win, bal, mtx>>
hist == <<pairs, lastWrite, enriched, walked>>

vars == <<program, max_workers, main, pc, reason, src, df, vals, k, conn, tx,
          historical_trades, rss_trades, account_metadata, win, bal, mtx, log,
          pairs, lastWrite, enriched, walked>>

\* ------------------------------------------------------------ raw CSV input
\* A data row of the export: Ticket (NaN when not integer-coercible), Open
\* time (already a parseable date), Profit.
RawRows == [Ticket : {NaN} \cup Tickets, timestamp : 1..MaxTs]

RawSeqs == UNION {[1..n -> RawRows] : n \in 0..MaxRows}

\* The column layouts a blob can have.
ColumnCases == {"all", "noProfit", "noTicket"}

Terminal == {"Done", "Failed"}

Active(u) == pc[u] \notin ({"Pending"} \cup Terminal)

Busy == Cardinality({u \in Units : Active(u)})

\* ------------------------------------------------------------------ logging
LogRec(level, kind, rows) == [level |-> level, kind |-> kind, rows |-> rows]

\* except Exception as e: logging.error(...)   (the function then returns)
Fail(u, why) ==
    /\ pc' = [pc EXCEPT ![u] = "Failed"]
    /\ reason' = [reason EXCEPT ![u] = why]
    /\ log' = [log EXCEPT ![u] = Append(@, LogRec("error", why, 0))]
    /\ df' = [df EXCEPT ![u] = [cols |-> "none", rows |-> <<>>]]
    /\ vals' = [vals EXCEPT ![u] = <<>>]
    /\ k' = [k EXCEPT ![u] = 0]

\* ---------------------------------------------------------------- the store
\* UPSERT_SQL with the gpt_* columns added to the DO UPDATE list.
UPSERT_SQL_UpdatesGpt(table, r) ==
    IF r.ticket \in DOMAIN table
    THEN [table EXCEPT ![r.ticket] =
             [account_id |-> r.account_id, timestamp |-> r.timestamp,
              pnl |-> r.pnl, gpt |-> r.gpt]]
    ELSE [t \in DOMAIN table \cup {r.ticket} |->
             IF t = r.ticket
             THEN [account_id |-> r.account_id, timestamp |-> r.timestamp,
                   pnl |-> r.pnl, gpt |-> r.gpt]
             ELSE table[t]]

\* UPSERT_SQL with  pnl = historical_trades.pnl + EXCLUDED.pnl.
UPSERT_SQL_Accumulates(table, r) ==
    IF r.ticket \in DOMAIN table
    THEN [table EXCEPT ![r.ticket] =
             [@ EXCEPT !.account_id = r.account_id,
                       !.timestamp = r.timestamp,
                       !.pnl = @ + r.pnl]]
    ELSE [t \in DOMAIN table \cup {r.ticket} |->
             IF t = r.ticket
             THEN [account_id |-> r.account_id, timestamp |-> r.timestamp,
                   pnl |-> r.pnl, gpt |-> r.gpt]
             ELSE table[t]]

\* UPSERT_SQL with account_id missing from the DO UPDATE list.
UPSERT_SQL_KeepsOwner(table, r) ==
    IF r.ticket \in DOMAIN table
    THEN [table EXCEPT ![r.ticket] =
             [@ EXCEPT !.timestamp = r.timestamp, !.pnl = r.pnl]]
    ELSE [t \in DOMAIN table \cup {r.ticket} |->
             IF t = r.ticket
             THEN [account_id |-> r.account_id, timestamp |-> r.timestamp,
                   pnl |-> r.pnl, gpt |-> r.gpt]
             ELSE table[t]]

\* INSERT INTO historical_trades (...) VALUES (...)
\* ON CONFLICT (ticket) DO UPDATE SET <mutable columns> = EXCLUDED.<...>
UPSERT_SQL(table, r) ==
    IF r.ticket \in DOMAIN table
    THEN [table EXCEPT ![r.ticket] =
             [@ EXCEPT !.account_id = r.account_id,
                       !.timestamp = r.timestamp,
                       !.pnl = r.pnl]]
    ELSE [t \in DOMAIN table \cup {r.ticket} |->
             IF t = r.ticket
             THEN [account_id |-> r.account_id, timestamp |-> r.timestamp,
                   pnl |-> r.pnl, gpt |-> r.gpt]
             ELSE table[t]]

\* What connection u sees: the committed rows overlaid with its own writes.
View(u) ==
    [t \in DOMAIN historical_trades \cup DOMAIN tx[u] |->
        IF t \in DOMAIN tx[u] THEN tx[u][t] ELSE historical_trades[t]]

\* The unit whose open transaction holds the row lock of ticket t (0: none).
Holder(t) ==
    IF \E v \in Units : conn[v] = "open" /\ t \in DOMAIN tx[v]
    THEN CHOOSE v \in Units : conn[v] = "open" /\ t \in DOMAIN tx[v]
    ELSE 0

\* ------------------------------------------------------------------- main()
\* Dispatch for a pool that stops taking work items once a unit has failed.
DispatchFailFast(u) ==
    /\ main = "running"
    /\ pc[u] = "Pending"
    /\ \A v \in Units : pc[v] # "Failed"
    /\ \A v \in Units : v < u => pc[v] # "Pending"
    /\ Busy < max_workers
    /\ pc' = [pc EXCEPT ![u] = IF program = "csv" THEN "Reading" ELSE "Pct"]
    /\ log' = [log EXCEPT ![u] =
                  IF program = "csv" THEN Append(@, LogRec("info", "Starting", 0))
                  ELSE @]
    /\ UNCHANGED <<program, max_workers, main, reason, src, df, vals, k, conn, tx,
                   store, rssv, hist>>

\* Dispatch for a pool that queues a failed unit again.
DispatchRetries(u) ==
    /\ main = "running"
    /\ pc[u] \in {"Pending", "Failed"}
    /\ \A v \in Units : v < u => pc[v] # "Pending"
    /\ Busy < max_workers
    /\ pc' = [pc EXCEPT ![u] = IF program = "csv" THEN "Reading" ELSE "Pct"]
    /\ log' = [log EXCEPT ![u] =
                  IF program = "csv" THEN Append(@, LogRec("info", "Starting", 0))
                  ELSE @]
    /\ UNCHANGED <<program, max_workers, main, reason, src, df, vals, k, conn, tx,
                   store, rssv, hist>>

\* Dispatch for a pool that starts a thread for every submitted unit.
DispatchUnbounded(u) ==
    /\ main = "running"
    /\ pc[u] = "Pending"
    /\ \A v \in Units : v < u => pc[v] # "Pending"
    /\ pc' = [pc EXCEPT ![u] = IF program = "csv" THEN "Reading" ELSE "Pct"]
    /\ log' = [log EXCEPT ![u] =
                  IF program = "csv" THEN Append(@, LogRec("info", "Starting", 0))
                  ELSE @]
    /\ UNCHANGED <<program, max_workers, main, reason, src, df, vals, k, conn, tx,
                   store, rssv, hist>>

\* pool.submit(...) for every enumerated unit; a free pool thread takes the
\* oldest queued work item.
Dispatch(u) ==
    /\ main = "running"
    /\ pc[u] = "Pending"
    /\ \A v \in Units : v < u => pc[v] # "Pending"
    /\ Busy < max_workers
    /\ pc' = [pc EXCEPT ![u] = IF program = "csv" THEN "Reading" ELSE "Pct"]
    /\ log' = [log EXCEPT ![u] =
                  IF program = "csv" THEN Append(@, LogRec("info", "Starting", 0))
                  ELSE @]
    /\ UNCHANGED <<program, max_workers, main, reason, src, df, vals, k, conn, tx,
                   store, rssv,
                   hist>>

\* for f in as_completed(futures): pass ; leaving the with block
MainDone ==
    /\ main = "running"
    /\ \A u \in Units : pc[u] \in Terminal
    /\ main' = "done"
    /\ UNCHANGED <<program, max_workers, pc, reason, src, df, vals, k, conn, tx,
                   store, log, rssv,
                   hist>>

\* ------------------------------------------------------------ process_blob
\* raw = blob.download_as_bytes(); df = pd.read_csv(BytesIO(raw), skiprows=1)
ReadBlob(u) ==
    /\ program = "csv"
    /\ pc[u] = "Reading"
    /\ \/ /\ src' = [src EXCEPT ![u] = "unreachable"]
          /\ Fail(u, "FetchError")
          /\ UNCHANGED pairs
       \/ \E c \in ColumnCases, rows \in RawSeqs :
             /\ c # "all" => Len(rows) <= 1
             /\ src' = [src EXCEPT ![u] = c]
             /\ df' = [df EXCEPT ![u] =
                          [cols |-> c, n |-> Len(rows),
                           rows |-> [i \in 1..Len(rows) |->
                                        [Ticket |-> rows[i].Ticket,
                                         timestamp |-> rows[i].timestamp,
                                         pnl |-> i]]]]
             /\ pairs' = [pairs EXCEPT ![u] =
                             {rows[i].Ticket : i \in 1..Len(rows)}]
             /\ pc' = [pc EXCEPT ![u] = "Normalizing"]
             /\ UNCHANGED <<reason, log, vals, k>>
    /\ UNCHANGED <<program, max_workers, main, conn, tx, store, rssv, lastWrite, enriched,
                   walked>>

\* ---- Record Normalizer (rename .. GPT placeholders), lines 78-146
\* df.rename(...); df["account_id"] = account_id; placeholders set to None.
\* Ticket is not renamed and stays the source column.
NormalizeRows(u, rows) ==
    [i \in 1..Len(rows) |->
        [account_id |-> u, Ticket |-> rows[i].Ticket,
         timestamp |-> rows[i].timestamp, pnl |-> rows[i].pnl, gpt |-> NULL]]

\* The required-columns check with pnl left out of the required list.
RequiredPresentWithoutPnl(cols) == TRUE

\* if not all(col in df.columns for col in required)
RequiredPresent(cols) == cols # "noProfit"

NormalizeBlob(u) ==
    /\ program = "csv"
    /\ pc[u] = "Normalizing"
    /\ IF RequiredPresent(df[u].cols)
       THEN \/ /\ df' = [df EXCEPT ![u].rows = NormalizeRows(u, @)]
               /\ pc' = [pc EXCEPT ![u] = "Deduping"]
               /\ UNCHANGED <<reason, log, vals, k>>
            \* df.setdefault(col, None) is no DataFrame method in the pandas
            \* releases that lack it: the call then raises AttributeError.
            \/ Fail(u, "UnexpectedError")
       ELSE \* logging.warning(" -> Skipping ..."); return
            /\ pc' = [pc EXCEPT ![u] = "Failed"]
            /\ reason' = [reason EXCEPT ![u] = "MissingColumns"]
            /\ log' = [log EXCEPT ![u] =
                          Append(@, LogRec("warning", "MissingColumns", 0))]
            /\ df' = [df EXCEPT ![u] = [cols |-> "none", rows |-> <<>>]]
            /\ UNCHANGED <<vals, k>>
    /\ UNCHANGED <<program, max_workers, main, src, conn, tx, store, rssv,
                   hist>>

\* ---- Deduplicator, lines 148-157
\* Decimal digits of a natural number, as str() prints it.
RECURSIVE Digits(_)
Digits(n) == IF n < 10 THEN <<n>> ELSE Append(Digits(n \div 10), n % 10)

\* HashInput with the timestamp left out of the hashed text.
HashInputWithoutTimestamp(r) == Digits(r.account_id) \o Digits(r.Ticket)

\* f"{r['account_id']}{r['Ticket']}{r['timestamp']}": the three components
\* printed one after the other with no separator; the hash is the md5 of
\* that text, so two rows share a hash exactly when they share the text.
HashInput(r) == Digits(r.account_id) \o Digits(r.Ticket) \o Digits(r.timestamp)

\* drop_duplicates(subset="__hash", keep="last"): keep the last row of
\* every hash.
DropDuplicatesKeepsLast(rows) ==
    LET keep == {i \in 1..Len(rows) :
                    \A j \in (i + 1)..Len(rows) :
                        HashInput(rows[j]) # HashInput(rows[i])}
        RECURSIVE Pick(_)
        Pick(i) == IF i > Len(rows) THEN <<>>
                   ELSE IF i \in keep THEN <<rows[i]>> \o Pick(i + 1)
                   ELSE Pick(i + 1)
    IN Pick(1)

\* df.drop_duplicates(subset="__hash"): keep the first row of every hash.
DropDuplicates(rows) ==
    LET keep == {i \in 1..Len(rows) :
                    \A j \in 1..(i - 1) : HashInput(rows[j]) # HashInput(rows[i])}
        RECURSIVE Pick(_)
        Pick(i) == IF i > Len(rows) THEN <<>>
                   ELSE IF i \in keep THEN <<rows[i]>> \o Pick(i + 1)
                   ELSE Pick(i + 1)
    IN Pick(1)

DedupeBlob(u) ==
    /\ program = "csv"
    /\ pc[u] = "Deduping"
    /\ df' = [df EXCEPT ![u].rows =
                 IF df[u].cols # "noTicket" THEN DropDuplicates(@) ELSE @]
    /\ pc' = [pc EXCEPT ![u] = "Connect"]
    /\ UNCHANGED <<program, max_workers, main, reason, src, vals, k, conn, tx,
                   store, log, rssv,
                   hist>>

\* ---- Batch Writer, lines 159-195
\* conn = get_db_conn(); cur = conn.cursor()
\* psycopg2.connect either raises or returns a new connection.
get_db_conn(u) ==
    /\ pc[u] = "Connect"
    /\ \/ /\ Fail(u, "UnexpectedError")
          /\ UNCHANGED conn
       \/ /\ conn' = [conn EXCEPT ![u] = "open"]
          /\ pc' = [pc EXCEPT ![u] = IF program = "csv" THEN "Vals" ELSE "Meta"]
          /\ UNCHANGED <<reason, log, df, vals, k>>
    /\ UNCHANGED <<program, max_workers, main, src, tx, store, rssv,
                   hist>>

\* ValsOf that leaves out the last row of the table.
ValsOfDropsLast(rows) ==
    [i \in 1..(Len(rows) - 1) |->
        [ticket |-> rows[i].Ticket, account_id |-> rows[i].account_id,
         timestamp |-> rows[i].timestamp, pnl |-> rows[i].pnl,
         gpt |-> rows[i].gpt]]

\* The tuple built for one row: int(r["Ticket"]), r["account_id"], ...
ValsOf(rows) ==
    [i \in 1..Len(rows) |->
        [ticket |-> rows[i].Ticket, account_id |-> rows[i].account_id,
         timestamp |-> rows[i].timestamp, pnl |-> rows[i].pnl,
         gpt |-> rows[i].gpt]]

\* TicketRaises for a conversion that lets every Ticket cell through.
TicketNeverRaises(d) == FALSE

\* int(r["Ticket"]) raises KeyError without the column and ValueError on NaN.
TicketRaises(d) ==
    \/ d.cols = "noTicket" /\ Len(d.rows) > 0
    \/ \E i \in 1..Len(d.rows) : d.rows[i].Ticket = NaN

BuildVals(u) ==
    /\ program = "csv"
    /\ pc[u] = "Vals"
    /\ IF TicketRaises(df[u])
       THEN Fail(u, "UnexpectedError")
       ELSE /\ vals' = [vals EXCEPT ![u] = ValsOf(df[u].rows)]
            /\ pc' = [pc EXCEPT ![u] = "Exec"]
            /\ UNCHANGED <<reason, log, df, k>>
    /\ UNCHANGED <<program, max_workers, main, src, conn, tx, store, rssv,
                   hist>>

\* ExecRow for a batch sent as one statement per distinct ticket: a tuple
\* whose ticket the batch has already written is skipped.
ExecRowKeepsFirst(u) ==
    /\ program = "csv"
    /\ pc[u] = "Exec"
    /\ k[u] < Len(vals[u])
    /\ LET r == vals[u][k[u] + 1] IN
         /\ Holder(r.ticket) \in {0, u}
         /\ \/ Fail(u, "WriteError") /\ UNCHANGED tx
            \/ /\ tx' = [tx EXCEPT ![u] =
                            [t \in DOMAIN @ \cup {r.ticket} |->
                                IF t = r.ticket /\ t \notin DOMAIN @
                                THEN UPSERT_SQL(View(u), r)[t]
                                ELSE @[t]]]
               /\ k' = [k EXCEPT ![u] = @ + 1]
               /\ UNCHANGED <<pc, reason, log, df, vals>>
    /\ UNCHANGED <<program, max_workers, main, src, conn, store, rssv,
                   hist>>

\* cur.executemany(UPSERT_SQL, vals): one statement per tuple, in order.  A
\* statement waits while another open transaction holds the row lock of its
\* ticket; the store may reject it.
ExecRow(u) ==
    /\ program = "csv"
    /\ pc[u] = "Exec"
    /\ k[u] < Len(vals[u])
    /\ LET r == vals[u][k[u] + 1] IN
         /\ Holder(r.ticket) \in {0, u}
         /\ \/ Fail(u, "WriteError") /\ UNCHANGED tx
            \/ /\ tx' = [tx EXCEPT ![u] =
                            [t \in DOMAIN @ \cup {r.ticket} |->
                                IF t = r.ticket THEN UPSERT_SQL(View(u), r)[t]
                                ELSE @[t]]]
               /\ k' = [k EXCEPT ![u] = @ + 1]
               /\ UNCHANGED <<pc, reason, log, df, vals>>
    /\ UNCHANGED <<program, max_workers, main, src, conn, store, rssv,
                   hist>>

\* The unit v that u's next statement waits for (0: it does not wait).
WaitsFor(u) ==
    IF pc[u] = "Exec" /\ k[u] < Len(vals[u])
    THEN LET h == Holder(vals[u][k[u] + 1].ticket) IN IF h = u THEN 0 ELSE h
    ELSE 0

RECURSIVE Reaches(_, _, _)
Reaches(u, v, n) ==
    /\ n > 0
    /\ WaitsFor(u) # 0
    /\ \/ WaitsFor(u) = v
       \/ Reaches(WaitsFor(u), v, n - 1)

\* The store detects a cycle of lock waits and fails one waiting statement.
DeadlockDetected(u) ==
    /\ program = "csv"
    /\ Reaches(u, u, NumUnits)
    /\ Fail(u, "WriteError")
    /\ UNCHANGED <<program, max_workers, main, src, conn, tx, store, rssv,
                   hist>>

\* The last tuple of a batch that carries ticket t.
LastOf(batch, t) ==
    batch[CHOOSE i \in 1..Len(batch) :
             /\ batch[i].ticket = t
             /\ \A j \in (i + 1)..Len(batch) : batch[j].ticket # t]

\* CommitBlob that logs the number of rows the transaction touched instead
\* of len(vals).
CommitBlobLogsRows(u) ==
    /\ program = "csv"
    /\ pc[u] = "Exec"
    /\ k[u] = Len(vals[u])
    /\ historical_trades' = View(u)
    /\ lastWrite' = [t \in DOMAIN lastWrite \cup DOMAIN tx[u] |->
                        IF t \in DOMAIN tx[u] THEN LastOf(vals[u], t)
                        ELSE lastWrite[t]]
    /\ UNCHANGED <<rss_trades, account_metadata, rssv, pairs, enriched, walked>>
    /\ tx' = [tx EXCEPT ![u] = <<>>]
    /\ conn' = [conn EXCEPT ![u] = "closed"]
    /\ log' = [log EXCEPT ![u] =
                  Append(@, LogRec("info", "Finished", Cardinality(DOMAIN tx[u])))]
    /\ pc' = [pc EXCEPT ![u] = "Done"]
    /\ df' = [df EXCEPT ![u] = [cols |-> "none", rows |-> <<>>]]
    /\ vals' = [vals EXCEPT ![u] = <<>>]
    /\ k' = [k EXCEPT ![u] = 0]
    /\ UNCHANGED <<program, max_workers, main, reason, src>>

\* conn.commit(); cur.close(); conn.close(); logging.info("Finished ...")
CommitBlob(u) ==
    /\ program = "csv"
    /\ pc[u] = "Exec"
    /\ k[u] = Len(vals[u])
    /\ historical_trades' = View(u)
    /\ lastWrite' = [t \in DOMAIN lastWrite \cup DOMAIN tx[u] |->
                        IF t \in DOMAIN tx[u] THEN LastOf(vals[u], t)
                        ELSE lastWrite[t]]
    /\ UNCHANGED <<rss_trades, account_metadata, rssv, pairs, enriched, walked>>
    /\ tx' = [tx EXCEPT ![u] = <<>>]
    /\ conn' = [conn EXCEPT ![u] = "closed"]
    /\ log' = [log EXCEPT ![u] = Append(@, LogRec("info", "Finished", Len(vals[u])))]
    /\ pc' = [pc EXCEPT ![u] = "Done"]
    /\ df' = [df EXCEPT ![u] = [cols |-> "none", rows |-> <<>>]]
    /\ vals' = [vals EXCEPT ![u] = <<>>]
    /\ k' = [k EXCEPT ![u] = 0]
    /\ UNCHANGED <<program, max_workers, main, reason, src>>

\* Finalize for a connection whose close commits the open transaction.
FinalizeCommits(u) ==
    /\ pc[u] = "Failed"
    /\ conn[u] = "open"
    /\ conn' = [conn EXCEPT ![u] = "closed"]
    /\ historical_trades' = View(u)
    /\ account_metadata' =
          [a \in DOMAIN account_metadata \cup DOMAIN mtx[u] |->
              IF a \in DOMAIN mtx[u] THEN mtx[u][a] ELSE account_metadata[a]]
    /\ tx' = [tx EXCEPT ![u] = <<>>]
    /\ mtx' = [mtx EXCEPT ![u] = <<>>]
    /\ UNCHANGED <<program, max_workers, main, pc, reason, src, df, vals, k,
                   rss_trades, log, win, bal,
                   hist>>

\* The except branch does not close the connection: it stays open, with its
\* transaction and row locks, until the runtime reclaims the connection
\* object, which closes it and rolls the transaction back.
Finalize(u) ==
    /\ pc[u] = "Failed"
    /\ conn[u] = "open"
    /\ conn' = [conn EXCEPT ![u] = "closed"]
    /\ tx' = [tx EXCEPT ![u] = <<>>]
    /\ mtx' = [mtx EXCEPT ![u] = <<>>]
    /\ UNCHANGED <<program, max_workers, main, pc, reason, src, df, vals, k,
                   store, log, win, bal,
                   hist>>

\* --------------------------------------------------------- process_account
\* What the roster cell of a percent-like column can hold.
PctInputs == {"55%", "-", "nan", "abc"}

\* to_pct: None for NaN and "-", float(x.strip("%")) / 100 for a string.
\* The result is kept in hundredths (0.55 is 55).
to_pct(x) == IF x \in {"nan", "-"} THEN NULL ELSE 55

\* float("abc".strip("%")) raises ValueError.
PctRaises(x) == x = "abc"

\* sa = row["username"] ... tpd = to_pct(...): lines 112-124, before the try.
\* An exception here leaves process_account; the pool stores it in the
\* future, and main() never asks the future for it.
ParsePct(u) ==
    /\ program = "rss"
    /\ pc[u] = "Pct"
    /\ \E x \in PctInputs :
          IF PctRaises(x)
          THEN /\ pc' = [pc EXCEPT ![u] = "Failed"]
               /\ reason' = [reason EXCEPT ![u] = "UnexpectedError"]
               /\ src' = [src EXCEPT ![u] = "badpct"]
               /\ UNCHANGED win
          ELSE /\ win' = [win EXCEPT ![u] = to_pct(x)]
               /\ pc' = [pc EXCEPT ![u] = "Connect"]
               /\ UNCHANGED <<reason, src>>
    /\ UNCHANGED <<program, max_workers, main, df, vals, k, conn, tx, store, bal, mtx, log,
                   hist>>

\* INSERT INTO account_metadata ... ON CONFLICT(account_id) DO UPDATE SET ...
\* strategy_inferred and gpt_comments are inserted NULL and not updated.
META_UPSERT(table, r) ==
    IF r.account_id \in DOMAIN table
    THEN [table EXCEPT ![r.account_id] = [@ EXCEPT !.trade_win = r.trade_win]]
    ELSE [a \in DOMAIN table \cup {r.account_id} |->
             IF a = r.account_id
             THEN [trade_win |-> r.trade_win, gpt_comments |-> NULL]
             ELSE table[a]]

\* cur.execute(META_UPSERT, (sa, url, rss, win, ret, tpd))
ExecMeta(u) ==
    /\ program = "rss"
    /\ pc[u] = "Meta"
    /\ \/ Fail(u, "WriteError") /\ UNCHANGED mtx
       \/ /\ mtx' = [mtx EXCEPT ![u] =
                        [a \in {u} |->
                            META_UPSERT(account_metadata,
                                        [account_id |-> u, trade_win |-> win[u]])[a]]]
          /\ pc' = [pc EXCEPT ![u] = "Fetch"]
          /\ UNCHANGED <<reason, log, df, vals, k>>
    /\ UNCHANGED <<program, max_workers, main, src, conn, tx, store, win, bal,
                   hist>>

\* One feed entry: the account summary it carries (0: none), the position
\* ticket it carries (0: none), and the state of its position fields:
\*   "ok"       every field is present and is numeric text, "" or "0";
\*   "garbage"  a field converted by float() or int() holds non-numeric text;
\*   "absent"   a field other than the ticket is missing from the entry.
\* An entry that is not "ok" fails the unit whatever summary it carries, so
\* such entries are listed without one.
EntryStates == {"ok", "garbage", "absent"}

Entries == {e \in [sum : 0..MaxSum, pos : 0..MaxTicket, fld : EntryStates] :
               e.fld # "ok" => (e.pos # 0 /\ e.sum = 0)}

Feeds == UNION {[1..n -> Entries] : n \in 0..MaxEntries}

\* feed = feedparser.parse(rss).  feedparser reports an unreachable or
\* malformed source in feed.bozo and returns no entries; it raises only on a
\* descriptor it cannot use as a source at all.
FetchFeed(u) ==
    /\ program = "rss"
    /\ pc[u] = "Fetch"
    /\ \/ /\ src' = [src EXCEPT ![u] = "baddescriptor"]
          /\ Fail(u, "FetchError")
       \/ /\ src' = [src EXCEPT ![u] = "unreachable"]
          /\ df' = [df EXCEPT ![u] = [cols |-> "rss", rows |-> <<>>]]
          /\ pc' = [pc EXCEPT ![u] = "Loop"]
          /\ UNCHANGED <<reason, log, vals, k>>
       \/ \E f \in Feeds :
             /\ src' = [src EXCEPT ![u] = "feed"]
             /\ df' = [df EXCEPT ![u] = [cols |-> "rss", rows |-> f]]
             /\ pc' = [pc EXCEPT ![u] = "Loop"]
             /\ UNCHANGED <<reason, log, vals, k>>
    /\ UNCHANGED <<program, max_workers, main, conn, tx, store, rssv,
                   hist>>

\* The 31-tuple appended to trades for a position entry.
TradeOf(u, e, summary) ==
    [ticket |-> e.pos, account_id |-> u, trade_win |-> win[u],
     account_balance |-> summary, gpt |-> NULL]

\* cur.executemany(TRADES_UPSERT.replace("(%s)", "(%s)" * 31), trades)
\* The text sent is  ... VALUES (%s)(%s)...(%s) ON CONFLICT(ticket) DO UPDATE
\* SET ..., magic_number = EXCLUDED.magic_number,  : the value list is not a
\* parenthesised comma list and the SET list ends in a comma.  The store
\* rejects the statement for every batch; nothing is written to rss_trades.
ExecTrades(u) == Fail(u, "WriteError")

\* HeldSummary that looks at the entry's summary only after the position
\* of the same entry has been emitted.
HeldSummaryBeforeEntry(u, e) == bal[u]

\* if hasattr(item, "account_balance"): bal = float(item.account_balance) ...
\* The summary held once the entry's summary fields have been looked at.
HeldSummary(u, e) == IF e.sum # 0 THEN e.sum ELSE bal[u]

\* One iteration of  for item in feed.entries  (lines 138-212).
\* float(), int() on non-numeric text raise ValueError; item.<field> on an
\* entry without the field raises AttributeError (it is what makes
\* hasattr(item, "position_ticket") false).  Both are caught by the except.
WalkEntry(u) ==
    /\ program = "rss"
    /\ pc[u] = "Loop"
    /\ Len(df[u].rows) > 0
    /\ LET e == Head(df[u].rows)
           summary == HeldSummary(u, e)
       IN IF e.pos = 0
          THEN \* if not hasattr(item, "position_ticket"): continue
               /\ bal' = [bal EXCEPT ![u] = summary]
               /\ df' = [df EXCEPT ![u].rows = Tail(@)]
               /\ walked' = [walked EXCEPT ![u] = Append(@, e)]
               /\ UNCHANGED <<pc, reason, log, vals, k, src>>
          ELSE IF e.fld # "ok"
          THEN /\ Fail(u, "UnexpectedError")
               /\ src' = [src EXCEPT ![u] = e.fld]
               /\ bal' = [bal EXCEPT ![u] = NULL]
               /\ walked' = [walked EXCEPT ![u] = <<>>]
          ELSE IF Len(vals[u]) + 1 >= BATCH_SIZE
          THEN /\ ExecTrades(u)
               /\ bal' = [bal EXCEPT ![u] = NULL]
               /\ walked' = [walked EXCEPT ![u] = <<>>]
               /\ UNCHANGED src
          ELSE /\ bal' = [bal EXCEPT ![u] = summary]
               /\ vals' = [vals EXCEPT ![u] = Append(@, TradeOf(u, e, summary))]
               /\ df' = [df EXCEPT ![u].rows = Tail(@)]
               /\ walked' = [walked EXCEPT ![u] = Append(@, e)]
               /\ UNCHANGED <<pc, reason, log, k, src>>
    /\ UNCHANGED <<program, max_workers, main, conn, tx, store, win, mtx,
                   pairs, lastWrite, enriched>>

\* if trades: cur.executemany(...)      (the final batch, lines 214-216)
FinalBatch(u) ==
    /\ program = "rss"
    /\ pc[u] = "Loop"
    /\ Len(df[u].rows) = 0
    /\ Len(vals[u]) > 0
    /\ ExecTrades(u)
    /\ bal' = [bal EXCEPT ![u] = NULL]
    /\ walked' = [walked EXCEPT ![u] = <<>>]
    /\ UNCHANGED <<program, max_workers, main, src, conn, tx, store, win, mtx,
                   pairs, lastWrite, enriched>>

\* conn.commit(); cur.close(); conn.close(); logging.info("... trades upserted")
CommitAccount(u) ==
    /\ program = "rss"
    /\ pc[u] = "Loop"
    /\ Len(df[u].rows) = 0
    /\ Len(vals[u]) = 0
    /\ account_metadata' =
          [a \in DOMAIN account_metadata \cup DOMAIN mtx[u] |->
              IF a \in DOMAIN mtx[u] THEN mtx[u][a] ELSE account_metadata[a]]
    /\ mtx' = [mtx EXCEPT ![u] = <<>>]
    /\ conn' = [conn EXCEPT ![u] = "closed"]
    /\ log' = [log EXCEPT ![u] = Append(@, LogRec("info", "Finished", Len(vals[u])))]
    /\ pc' = [pc EXCEPT ![u] = "Done"]
    /\ df' = [df EXCEPT ![u] = [cols |-> "none", rows |-> <<>>]]
    /\ bal' = [bal EXCEPT ![u] = NULL]
    /\ walked' = [walked EXCEPT ![u] = <<>>]
    /\ UNCHANGED <<program, max_workers, main, reason, src, vals, k, tx, historical_trades,
                   rss_trades, win,
                   pairs, lastWrite, enriched>>

\* ---- the external enrichment process
\* It fills the gpt_* placeholder columns of a committed row; its UPDATE
\* waits for the row lock like any other statement.
Enrich(t) ==
    /\ t \in DOMAIN historical_trades
    /\ historical_trades[t].gpt = NULL
    /\ Holder(t) = 0
    /\ historical_trades' = [historical_trades EXCEPT ![t].gpt = 1]
    /\ enriched' = enriched \cup {t}
    /\ UNCHANGED <<program, max_workers, main, pc, reason, src, df, vals, k, conn, tx, log,
                   rss_trades, account_metadata, rssv, pairs, lastWrite, walked>>

Init ==
    /\ program \in {"csv", "rss"}
    /\ max_workers \in 1..MAX_WORKERS
    /\ main = "running"
    /\ pc = [u \in Units |-> "Pending"]
    /\ reason = [u \in Units |-> "None"]
    /\ src = [u \in Units |-> "unread"]
    /\ df = [u \in Units |-> [cols |-> "none", rows |-> <<>>]]
    /\ vals = [u \in Units |-> <<>>]
    /\ k = [u \in Units |-> 0]
    /\ conn = [u \in Units |-> "none"]
    /\ tx = [u \in Units |-> <<>>]
    /\ historical_trades = <<>>
    /\ rss_trades = <<>>
    /\ account_metadata = <<>>
    /\ win = [u \in Units |-> NULL]
    /\ bal = [u \in Units |-> NULL]
    /\ mtx = [u \in Units |-> <<>>]
    /\ log = [u \in Units |-> <<>>]
    /\ pairs = [u \in Units |-> {}]
    /\ lastWrite = <<>>
    /\ enriched = {}
    /\ walked = [u \in Units |-> <<>>]

Next ==
    \/ \E u \in Units : Dispatch(u)
    \/ MainDone
    \/ \E u \in Units : ReadBlob(u)
    \/ \E u \in Units : NormalizeBlob(u)
    \/ \E u \in Units : DedupeBlob(u)
    \/ \E u \in Units : get_db_conn(u)
    \/ \E u \in Units : BuildVals(u)
    \/ \E u \in Units : ExecRow(u)
    \/ \E u \in Units : DeadlockDetected(u)
    \/ \E u \in Units : CommitBlob(u)
    \/ \E u \in Units : Finalize(u)
    \/ \E u \in Units : ParsePct(u)
    \/ \E u \in Units : ExecMeta(u)
    \/ \E u \in Units : FetchFeed(u)
    \/ \E u \in Units : WalkEntry(u)
    \/ \E u \in Units : FinalBatch(u)
    \/ \E u \in Units : CommitAccount(u)
    \/ \E t \in Tickets : Enrich(t)

Spec == Init /\ [][Next]_vars

\* The steps of the pipeline itself: every step but the enrichment process's.
\* Pool threads keep running, the store answers every statement it is sent
\* (with a result, an error, or a deadlock report), and the runtime reclaims
\* the connection object of a returned call.
PipelineNext ==
    \/ \E u \in Units : Dispatch(u)
    \/ MainDone
    \/ \E u \in Units : ReadBlob(u)
    \/ \E u \in Units : NormalizeBlob(u)
    \/ \E u \in Units : DedupeBlob(u)
    \/ \E u \in Units : get_db_conn(u)
    \/ \E u \in Units : BuildVals(u)
    \/ \E u \in Units : ExecRow(u)
    \/ \E u \in Units : DeadlockDetected(u)
    \/ \E u \in Units : CommitBlob(u)
    \/ \E u \in Units : Finalize(u)
    \/ \E u \in Units : ParsePct(u)
    \/ \E u \in Units : ExecMeta(u)
    \/ \E u \in Units : FetchFeed(u)
    \/ \E u \in Units : WalkEntry(u)
    \/ \E u \in Units : FinalBatch(u)
    \/ \E u \in Units : CommitAccount(u)

FairSpec == Init /\ [][Next]_vars /\ WF_vars(PipelineNext)

\* =========================================================================
\* Properties
\* =========================================================================

\* The mutable columns of a row or of a parameter tuple.
Mutable(r) == [account_id |-> r.account_id, timestamp |-> r.timestamp,
               pnl |-> r.pnl]

\* Every tuple the Normalizer can hand to the Writer.
TradeRecords ==
    [ticket : Tickets, account_id : Units, timestamp : 1..MaxTs,
     pnl : 1..MaxRows, gpt : {NULL}]

\* C1: once an enrichment field of a committed row is non-null, no step of
\* the pipeline (no upsert, no commit, no rollback) changes it or removes the
\* row, in either trades table; a conflicting upsert leaves the enrichment
\* field of the row it rewrites as it found it.
EnrichmentKept(table, table2) ==
    \A t \in DOMAIN table :
        table[t].gpt # NULL => t \in DOMAIN table2 /\ table2[t].gpt = table[t].gpt

Thm_C1 ==
    [][/\ EnrichmentKept(historical_trades, historical_trades')
       /\ EnrichmentKept(rss_trades, rss_trades')
       /\ \A u \in Units : \A t \in DOMAIN tx'[u] :
             t \in DOMAIN historical_trades =>
                 tx'[u][t].gpt = historical_trades[t].gpt]_vars

\* C1 witness: an open transaction has upserted a ticket whose committed row
\* is enriched, and has changed its mutable fields.
Wit_C1 ==
    \E u \in Units : \E t \in DOMAIN tx[u] :
        /\ conn[u] = "open"
        /\ t \in DOMAIN historical_trades
        /\ historical_trades[t].gpt # NULL
        /\ tx[u][t].gpt = historical_trades[t].gpt
        /\ Mutable(tx[u][t]) # Mutable(historical_trades[t])

\* C2: on every table a connection can see, upserting a record twice in
\* succession gives the table that upserting it once gives.
Thm_C2 ==
    \A r \in TradeRecords :
        /\ LET once == UPSERT_SQL(historical_trades, r)
           IN UPSERT_SQL(once, r) = once
        /\ \A u \in {v \in Units : DOMAIN tx[v] # {}} :
              LET once == UPSERT_SQL(View(u), r)
              IN UPSERT_SQL(once, r) = once

\* C2 witness: a committed table on which some record conflicts with a row
\* and changes it, so the first upsert is not a no-op.
Wit_C2 ==
    \E r \in TradeRecords :
        /\ r.ticket \in DOMAIN historical_trades
        /\ UPSERT_SQL(historical_trades, r) # historical_trades

\* C3: under every choice of failing units, every unit reaches a terminal
\* state and main() then completes.
RunComplete == main = "done" /\ \A u \in Units : pc[u] \in Terminal

Thm_C3 == <>RunComplete

\* C3 witness: the run is complete, one unit has failed, and a sibling is
\* Done with its rows in the committed table.
Wit_C3 ==
    /\ RunComplete
    /\ \E u, v \in Units :
          /\ pc[u] = "Failed"
          /\ pc[v] = "Done"
          /\ pairs[v] # {}
          /\ \A t \in pairs[v] :
                t \in DOMAIN historical_trades /\ historical_trades[t].account_id = v

\* The CSV units that have gone through normalize, dedupe and upsert.
DoneUnits == {u \in Units : program = "csv" /\ pc[u] = "Done"}

\* C4 as stated: every (owner, ticket) pair of the input rows of a unit that
\* went through has a row of its own in the store.
Orig_C4 ==
    \A u \in DoneUnits : \A t \in pairs[u] :
        t \in DOMAIN historical_trades /\ historical_trades[t].account_id = u

\* C4 (amended): the store holds exactly one row for each distinct ticket of
\* the input rows of the units that went through, and no other row; the
\* owner of the row is one of the units whose rows carry that ticket.
Thm_C4 ==
    program = "csv" =>
        /\ DOMAIN historical_trades = UNION {pairs[u] : u \in DoneUnits}
        /\ \A t \in DOMAIN historical_trades :
              \E u \in DoneUnits :
                  t \in pairs[u] /\ historical_trades[t].account_id = u

\* C4 witness: two units with different owners carrying the same ticket have
\* both gone through.
Wit_C4 ==
    /\ main = "done"
    /\ \E u, v \in DoneUnits : u # v /\ pairs[u] \cap pairs[v] # {}

\* Upserting every record of a sequence individually, in order.
RECURSIVE UpsertAll(_, _)
UpsertAll(table, recs) ==
    IF recs = <<>> THEN table
    ELSE UpsertAll(UPSERT_SQL(table, Head(recs)), Tail(recs))

IsResult(rec) == rec.kind # "Starting"

ResultRecords(u) == SelectSeq(log[u], IsResult)

\* C6 as stated: no unit is in a terminal state while its connection is
\* still open.
Orig_C6 == \A u \in Units : pc[u] \in Terminal => conn[u] # "open"

\* C7 as stated: every unit in a terminal state has emitted exactly one
\* result log record.
Orig_C7 == \A u \in Units : pc[u] \in Terminal => Len(ResultRecords(u)) = 1

\* C8 as stated: a unit whose source is unreachable ends Failed with reason
\* FetchError and one error record, and has written no trade row.
Orig_C8 ==
    \A u \in Units :
        (src[u] = "unreachable" /\ pc[u] \in Terminal) =>
            /\ pc[u] = "Failed"
            /\ reason[u] = "FetchError"
            /\ ResultRecords(u) = <<LogRec("error", "FetchError", 0)>>
            /\ tx[u] = <<>>

\* The run is complete or the pipeline can take a step.
Progress == RunComplete \/ ENABLED PipelineNext

\* C9: a CSV unit that lacks a required column ends with exactly one
\* MissingColumns warning and no error record, has opened no connection and
\* written no row, and the pipeline goes on with the remaining units.
Thm_C9 ==
    \A u \in Units :
        (src[u] = "noProfit" /\ pc[u] # "Normalizing") =>
            /\ pc[u] = "Failed"
            /\ reason[u] = "MissingColumns"
            /\ ResultRecords(u) = <<LogRec("warning", "MissingColumns", 0)>>
            /\ conn[u] = "none"
            /\ tx[u] = <<>>
            /\ \A t \in DOMAIN historical_trades :
                  historical_trades[t].account_id # u
            /\ Progress

\* C9 witness: a unit was skipped for a missing column and a unit dispatched
\* after it has committed rows.
Wit_C9 ==
    \E u, v \in Units :
        /\ u < v
        /\ src[u] = "noProfit"
        /\ reason[u] = "MissingColumns"
        /\ pc[v] = "Done"
        /\ \E t \in DOMAIN historical_trades : historical_trades[t].account_id = v

\* C10: with units upserting the same ticket concurrently, the pipeline never
\* gets stuck, and every committed row has all its mutable fields equal to
\* the tuple of the transaction that committed last on its ticket, its
\* enrichment field being what the enrichment process made it.
Thm_C10 ==
    /\ Progress
    /\ DOMAIN lastWrite = DOMAIN historical_trades
    /\ \A t \in DOMAIN historical_trades :
          /\ Mutable(historical_trades[t]) = Mutable(lastWrite[t])
          /\ historical_trades[t].gpt = (IF t \in enriched THEN 1 ELSE NULL)

\* C10 witness: a unit's upsert waits for the row lock that a concurrently
\* running unit took by upserting the same ticket.
Wit_C10 ==
    \E u, v \in Units :
        /\ u # v
        /\ pc[u] = "Exec"
        /\ pc[v] = "Exec"
        /\ WaitsFor(u) = v

\* C11 as stated: an RSS unit that has issued its metadata upsert and has
\* ended, Done or Failed, whatever became of its trade records (fetch,
\* normalization or write failed, or the feed had no position), has its
\* metadata row in the committed store.
MetaIssued(u) ==
    /\ program = "rss"
    /\ src[u] \in {"feed", "unreachable", "baddescriptor", "garbage", "absent"}

Orig_C11 ==
    \A u \in Units :
        (MetaIssued(u) /\ pc[u] \in Terminal) => u \in DOMAIN account_metadata

\* C12 as stated: a non-numeric value in a numeric field of an entry does
\* not make the unit fail.
Orig_C12 == \A u \in Units : src[u] = "garbage" => pc[u] # "Failed"

\* C13 as stated: a position entry that lacks a field other than the ticket
\* does not make the unit fail.
Orig_C13 == \A u \in Units : src[u] = "absent" => pc[u] # "Failed"

\* The stage of the unit state machine a position of the code belongs to:
\* Pending 0, Reading 1, Normalizing 2, Deduping 3, Writing 4, terminal 5.
Stage(p) ==
    CASE p = "Pending" -> 0
      [] p \in {"Reading", "Fetch"} -> 1
      [] p \in {"Normalizing", "Pct", "Loop"} -> 2
      [] p = "Deduping" -> 3
      [] p \in {"Connect", "Meta", "Vals", "Exec"} -> 4
      [] p \in Terminal -> 5

\* C14 as stated: no step takes a unit to an earlier stage, and a unit that
\* has issued a store write has read its source.
Orig_C14 ==
    [][\A u \in Units :
          /\ Stage(pc'[u]) >= Stage(pc[u])
          /\ (tx'[u] # <<>> \/ mtx'[u] # <<>>) => src'[u] # "unread"]_vars

\* The identity of a record: owner key, source ticket, normalized timestamp.
Identity(r) == <<r.account_id, r.Ticket, r.timestamp>>

\* The positions of a batch that hold the first record of their identity.
FirstOccurrences(rows) ==
    {i \in 1..Len(rows) :
        \A j \in 1..(i - 1) : Identity(rows[j]) # Identity(rows[i])}

\* out is rows restricted to the first record of every identity, in the
\* order of rows.
KeepsFirstInOrder(out, rows) ==
    \E f \in [1..Len(out) -> 1..Len(rows)] :
        /\ \A i, j \in 1..Len(out) : i < j => f[i] < f[j]
        /\ {f[i] : i \in 1..Len(out)} = FirstOccurrences(rows)
        /\ \A i \in 1..Len(out) : out[i] = rows[f[i]]

\* A step in which unit u runs the Deduplicator over a table with a Ticket
\* column.
DedupeStep(u) ==
    /\ pc[u] = "Deduping"
    /\ pc'[u] = "Connect"
    /\ df[u].cols # "noTicket"

\* C15: the Deduplicator keeps, for every identity (owner, ticket, normalized
\* timestamp), exactly the first record carrying it, in the original order;
\* records that differ in one identity component are both kept.
Thm_C15 ==
    [][\A u \in Units :
          DedupeStep(u) => KeepsFirstInOrder(df'[u].rows, df[u].rows)]_vars

\* C15 witness: a table read with two rows of one identity has been deduped
\* to its first row.
Wit_C15 ==
    \E u \in Units :
        /\ pc[u] = "Connect"
        /\ df[u].cols = "all"
        /\ df[u].n = 2
        /\ Len(df[u].rows) = 1
        /\ df[u].rows[1].pnl = 1

\* C16: the Deduplicator leaves a batch with pairwise distinct identities as
\* it is, and deduping its output again changes nothing.
Thm_C16 ==
    [][\A u \in Units :
          DedupeStep(u) =>
              /\ FirstOccurrences(df[u].rows) = 1..Len(df[u].rows) =>
                    df'[u].rows = df[u].rows
              /\ DropDuplicates(df'[u].rows) = df'[u].rows]_vars

\* C16 witness: one unit's two-row table with one ticket and two timestamps
\* has passed the Deduplicator whole, and another unit's two-row table has
\* lost its duplicate.
Wit_C16 ==
    \E u, v \in Units :
        /\ pc[u] = "Connect"
        /\ df[u].cols = "all"
        /\ Len(df[u].rows) = 2
        /\ df[u].rows[1].Ticket = df[u].rows[2].Ticket
        /\ pc[v] = "Connect"
        /\ df[v].cols = "all"
        /\ df[v].n = 2
        /\ Len(df[v].rows) = 1

\* The summary of the last summary-carrying entry of a sequence of entries
\* (NULL: no entry carries one).
RECURSIVE LatestSummary(_)
LatestSummary(es) ==
    IF es = <<>> THEN NULL
    ELSE IF es[Len(es)].sum # 0 THEN es[Len(es)].sum
    ELSE LatestSummary(SubSeq(es, 1, Len(es) - 1))

PositionIndexes(es) == {i \in 1..Len(es) : es[i].pos # 0}

\* C17: during the feed walk the emitted records are the position entries
\* walked so far, in document order, each stamped with the summary of the
\* latest summary-carrying entry at or before it (NULL if there is none);
\* walking further entries leaves that stamp as it is.
Thm_C17 ==
    \A u \in Units :
        (program = "rss" /\ pc[u] = "Loop") =>
            LET P == PositionIndexes(walked[u]) IN
              /\ Len(vals[u]) = Cardinality(P)
              /\ \A i \in P :
                    LET n == Cardinality({j \in P : j <= i}) IN
                      /\ vals[u][n].ticket = walked[u][i].pos
                      /\ vals[u][n].account_balance =
                            LatestSummary(SubSeq(walked[u], 1, i))

\* C17 witness: one unit has emitted a position from an entry that itself
\* carries a summary superseding an earlier one; another has emitted a
\* position before any summary and has then walked a summary entry.
Wit_C17 ==
    \E u, v \in Units :
        /\ pc[u] = "Loop"
        /\ Len(walked[u]) = 2
        /\ walked[u][1].sum # 0
        /\ walked[u][2].sum \notin {0, walked[u][1].sum}
        /\ walked[u][2].pos # 0
        /\ vals[u][1].account_balance = walked[u][2].sum
        /\ pc[v] = "Loop"
        /\ Len(walked[v]) = 2
        /\ walked[v][1].pos # 0
        /\ walked[v][1].sum = 0
        /\ walked[v][2].sum # 0
        /\ vals[v][1].account_balance = NULL

Thm_C19 ==
    /\ \A u \in Units :
          /\ \A i \in 1..Len(vals[u]) : vals[u][i].ticket \in Tickets
          /\ DOMAIN tx[u] \subseteq Tickets
    /\ DOMAIN historical_trades \subseteq Tickets
    /\ DOMAIN rss_trades \subseteq Tickets

\* C19 witness: a unit whose table has a row without an integer ticket has
\* opened its connection and failed without writing.
Wit_C19 ==
    \E u \in Units :
        /\ NaN \in pairs[u]
        /\ pc[u] = "Failed"
        /\ reason[u] = "UnexpectedError"
        /\ conn[u] # "none"
        /\ tx[u] = <<>>

IsStarting(rec) == rec.kind = "Starting"

\* C20: a unit leaves Pending once and never returns to it, a terminal unit
\* stays as it is, main() ends only when every unit is terminal, and no unit
\* is started twice.
Thm_C20 ==
    [][\A u \in Units :
          /\ pc[u] # "Pending" => pc'[u] # "Pending"
          /\ pc[u] \in Terminal => pc'[u] = pc[u]
          /\ main' = "done" => pc'[u] \in Terminal
          /\ Len(SelectSeq(log'[u], IsStarting)) <= 1]_vars

\* C20 witness: the run has ended with a failed and a done unit, each
\* started once.
Wit_C20 ==
    /\ main = "done"
    /\ program = "csv"
    /\ \E u, v \in Units : pc[u] = "Failed" /\ pc[v] = "Done"
    /\ \A u \in Units :
          pc[u] \in Terminal /\ Len(SelectSeq(log[u], IsStarting)) = 1

\* C21: at every moment at most max_workers units are between Pending and a
\* terminal state.
Thm_C21 == Busy <= max_workers

\* C21 witness: the pool is smaller than the number of units, it is full,
\* and a unit is waiting in the queue.
Wit_C21 ==
    /\ max_workers < NumUnits
    /\ Busy = max_workers
    /\ \E u \in Units : pc[u] = "Pending"

\* The metadata tuple unit u sends with META_UPSERT.
MetaOf(u) == [account_id |-> u, trade_win |-> win[u]]

\* A step in which unit u commits: the committed store becomes what all of
\* u's writes, applied in order, make of it.
CommitsWhole(u) ==
    /\ pc[u] \notin Terminal
    /\ pc'[u] = "Done"
    /\ rss_trades' = rss_trades
    /\ IF program = "csv"
       THEN /\ historical_trades' = UpsertAll(historical_trades, vals[u])
            /\ account_metadata' = account_metadata
       ELSE /\ historical_trades' = historical_trades
            /\ account_metadata' = META_UPSERT(account_metadata, MetaOf(u))

\* C22: the committed store changes only by the enrichment process or by the
\* single commit of a unit that ends Done, which brings in all of the unit's
\* writes at once; no step of a unit that fails or has failed changes it, and
\* a Failed unit owns no committed trade row and no metadata row.
Thm_C22 ==
    [][/\ store' # store =>
             \/ enriched' # enriched
             \/ \E u \in Units : CommitsWhole(u)
       /\ \A u \in Units :
             pc'[u] = "Failed" =>
                 /\ pc[u] # "Failed" => store' = store
                 /\ u \notin DOMAIN account_metadata'
                 /\ \A t \in DOMAIN historical_trades' :
                       historical_trades'[t].account_id # u]_vars

\* C22 witness: a unit has failed with its transaction holding a write on a
\* ticket whose committed row, unchanged, belongs to a unit that is Done.
Wit_C22 ==
    \E u, v \in Units : \E t \in DOMAIN tx[u] :
        /\ u # v
        /\ pc[u] = "Failed"
        /\ reason[u] = "WriteError"
        /\ pc[v] = "Done"
        /\ t \in DOMAIN historical_trades
        /\ historical_trades[t].account_id = v
        /\ Mutable(tx[u][t]) # Mutable(historical_trades[t])
====
